---- MODULE Spec2Model ----
(***************************************************************************)
(* A model of apple-doc-mcp: the documentation client (request cache,      *)
(* fetchers, framework and global search, wildcard matcher, ranker) and    *)
(* the tool handlers of the MCP server that call it (get_documentation     *)
(* with its technology fallback, search_symbols, list_technologies).       *)
(*                                                                         *)
(* Strings are sequences of one-character strings.  A JSON value that may  *)
(* be null or lack a field is a record with a "tag" field.  A JavaScript   *)
(* object used as a map (references) is the sequence of its values in      *)
(* insertion order, which is the order Object.values/Object.entries give   *)
(* for the non-numeric identifiers the upstream documents use.             *)
(***************************************************************************)
EXTENDS Integers, Sequences, FiniteSets, TLC

VARIABLES
    now,        \* Date.now(), in milliseconds
    cache,      \* AppleDevDocsClient.cache: url -> entry
    upstream,   \* what the upstream API serves: the index and one document per name
    pc,         \* the await the running tool call is suspended at ("idle": none)
    args,       \* request.params of the running tool call
    req,        \* the makeRequest call being awaited
    loc,        \* the locals of the running handler
    result,     \* what the last finished tool call gave its caller
    trace,      \* history: the makeRequest calls of the running/last tool call
    stored,     \* history: url -> time of the last successful network fetch
    ncalls,     \* number of tool calls dispatched so far
    fnIn,       \* inputs of the pure helper under test
    fnOut,      \* its output
    calls       \* makeRequest calls of tool invocations that overlap

vars == <<now, cache, upstream, pc, args, req, loc, result, trace, stored,
          ncalls, fnIn, fnOut, calls>>

-----------------------------------------------------------------------------
(* Bounds of the model                                                     *)

MaxQueryLen == 3
MaxTitleLen == 3
MaxCalls == 2
MaxTicks == 2
MaxRefs == 2
MaxTechnologies == 24
MaxLargeRefs == 22

-----------------------------------------------------------------------------
(* Strings                                                                 *)

UpperChars == <<"A","B","C","D","E","F","G","H","I","J","K","L","M",
                "N","O","P","Q","R","S","T","U","V","W","X","Y","Z">>
LowerChars == <<"a","b","c","d","e","f","g","h","i","j","k","l","m",
                "n","o","p","q","r","s","t","u","v","w","x","y","z">>

\* The line terminators of ECMAScript; "LF" stands for the one-character
\* string U+000A and so on.
LineTerminators == {"LF", "CR", "LS", "PS"}

ToLowerChar(c) ==
    IF \E i \in 1..26 : UpperChars[i] = c
    THEN LowerChars[CHOOSE i \in 1..26 : UpperChars[i] = c]
    ELSE c

ToUpperChar(c) ==
    IF \E i \in 1..26 : LowerChars[i] = c
    THEN UpperChars[CHOOSE i \in 1..26 : LowerChars[i] = c]
    ELSE c

\* String.prototype.toLowerCase
ToLowerCase(s) == [i \in 1..Len(s) |-> ToLowerChar(s[i])]

\* s.slice(k): s without its first k characters
Drop(s, k) == SubSeq(s, k + 1, Len(s))

\* s.slice(0, k)
Take(s, k) == SubSeq(s, 1, IF k < Len(s) THEN k ELSE Len(s))

\* String.prototype.startsWith
StartsWith(s, p) == Len(p) <= Len(s) /\ SubSeq(s, 1, Len(p)) = p

\* String.prototype.includes
Includes(s, p) ==
    \E i \in 0..Len(s) : i + Len(p) <= Len(s) /\ SubSeq(s, i + 1, i + Len(p)) = p

\* All strings over alphabet of length at most n
StringsUpTo(alphabet, n) == UNION {[1..k -> alphabet] : k \in 0..n}

-----------------------------------------------------------------------------
(* createSearchPattern and RegExp.prototype.test                           *)

\* The characters of the class [.*+?^${}()|[\]\\]
RegexSpecials == {".", "*", "+", "?", "^", "$", "{", "}", "(", ")", "|", "[", "]", "\\"}

\* query.replace(/[.*+?^${}()|[\]\\]/g, '\\$&')
RECURSIVE EscapeRegex(_)
EscapeRegex(s) ==
    IF s = <<>> THEN <<>>
    ELSE IF Head(s) \in RegexSpecials
         THEN <<"\\", Head(s)>> \o EscapeRegex(Tail(s))
         ELSE <<Head(s)>> \o EscapeRegex(Tail(s))

\* s.replace(/\\X/g, by): every backslash followed by the character x, scanning
\* left to right, is replaced by the string by
RECURSIVE ReplaceEscaped(_, _, _)
ReplaceEscaped(s, x, by) ==
    IF s = <<>> THEN <<>>
    ELSE IF Len(s) >= 2 /\ s[1] = "\\" /\ s[2] = x
         THEN by \o ReplaceEscaped(Drop(s, 2), x, by)
         ELSE <<Head(s)>> \o ReplaceEscaped(Tail(s), x, by)

\* The source text of the pattern without the escaping step: the wildcard
\* rewriting alone (a query is then read as a regular expression)
createSearchPatternUnescaped(query) ==
    LET star == [i \in 1..Len(query) |->
                    IF query[i] = "*" THEN <<".", "*">>
                    ELSE IF query[i] = "?" THEN <<".">> ELSE <<query[i]>>]
        Flat[i \in 0..Len(query)] ==
            IF i = 0 THEN <<>> ELSE Flat[i - 1] \o star[i]
    IN Flat[Len(query)]

\* The source text of the regular expression createSearchPattern builds
PatternSource(query) ==
    ReplaceEscaped(ReplaceEscaped(EscapeRegex(query), "*", <<".", "*">>), "?", <<".">>)

\* The atoms of a pattern source.  A backslash makes the next character a
\* literal, a dot is the any-character atom, and a star after an atom repeats
\* it.  (The sources built above hold no other operator unescaped.)
RECURSIVE ParseRegex(_)
ParseRegex(src) ==
    IF src = <<>> THEN <<>>
    ELSE LET esc  == src[1] = "\\" /\ Len(src) >= 2
             atom == IF esc THEN [any |-> FALSE, ch |-> src[2]]
                     ELSE IF src[1] = "." THEN [any |-> TRUE, ch |-> "."]
                     ELSE [any |-> FALSE, ch |-> src[1]]
             rest == Drop(src, IF esc THEN 2 ELSE 1)
             rep  == rest # <<>> /\ rest[1] = "*"
         IN <<[any |-> atom.any, ch |-> atom.ch, star |-> rep]>>
            \o ParseRegex(IF rep THEN Tail(rest) ELSE rest)

\* One atom against one character, under the "i" flag and without the "s"
\* flag: a dot matches any character except a line terminator, a literal
\* matches the characters with the same canonical (upper-case) form.
AtomMatches(atom, c) ==
    IF atom.any THEN c \notin LineTerminators
    ELSE ToUpperChar(atom.ch) = ToUpperChar(c)

\* Whether the atoms match a prefix of s (backtracking over every repetition
\* count of a starred atom)
RECURSIVE MatchesPrefix(_, _)
MatchesPrefix(atoms, s) ==
    IF atoms = <<>> THEN TRUE
    ELSE IF Head(atoms).star
         THEN \/ MatchesPrefix(Tail(atoms), s)
              \/ /\ s # <<>>
                 /\ AtomMatches(Head(atoms), Head(s))
                 /\ MatchesPrefix(atoms, Tail(s))
         ELSE /\ s # <<>>
              /\ AtomMatches(Head(atoms), Head(s))
              /\ MatchesPrefix(Tail(atoms), Tail(s))

\* new RegExp(src, 'i').test(title): an unanchored search
RegexTest(src, title) ==
    \E i \in 0..Len(title) : MatchesPrefix(ParseRegex(src), Drop(title, i))

\* createSearchPattern: the source of the RegExp it returns (flag "i")
createSearchPattern(query) == PatternSource(query)

-----------------------------------------------------------------------------
(* JSON values                                                             *)

Null == [tag |-> "null"]

\* One entry of the technology index
Tech(title, kind, role) == [tag |-> "tech", title |-> title, kind |-> kind, role |-> role]

\* The technology index document; hasRefs says whether it has "references"
IndexDoc(hasRefs, refs) == [tag |-> "object", hasRefs |-> hasRefs, refs |-> refs]

\* One entry of a document's reference map.  kind "" and title <<>> stand for
\* a missing field (both are falsy, like undefined); url identifies the entry.
Ref(title, kind, hasPlatforms, platforms, url) ==
    [tag |-> "ref", title |-> title, kind |-> kind, hasPlatforms |-> hasPlatforms,
     platforms |-> platforms, url |-> url]

\* A framework or symbol document: references and topicSections may be
\* missing, platforms is metadata.platforms (empty when missing).
Doc(hasRefs, refs, hasTopics, platforms) ==
    [tag |-> "object", hasRefs |-> hasRefs, refs |-> refs, hasTopics |-> hasTopics,
     platforms |-> platforms]

\* Error values: name and message, the two parts `${error}` prints
Err(name, message) == [name |-> name, message |-> message]
TypeError == Err("TypeError", [text |-> "Cannot read properties"])
NoError == Err("", [text |-> ""])

-----------------------------------------------------------------------------
(* Reference filter, ranker, framework search (the part after the fetch)   *)

\* options.platform is set and the entry lists platforms, none of whose names
\* contains it
PlatformMismatch(ref, options) ==
    /\ options.platform # <<>>
    /\ ref.hasPlatforms
    /\ ~ \E i \in 1..Len(ref.platforms) :
            Includes(ToLowerCase(ref.platforms[i]), ToLowerCase(options.platform))

\* The platform test with an entry that lists no platforms rejected
PlatformMismatchStrict(ref, options) ==
    /\ options.platform # <<>>
    /\ ~ (ref.hasPlatforms /\ \E i \in 1..Len(ref.platforms) :
            Includes(ToLowerCase(ref.platforms[i]), ToLowerCase(options.platform)))

\* matchesSearch, for an entry that is not null (a null entry throws)
matchesSearch(ref, pattern, options) ==
    /\ ref.title # <<>>
    /\ RegexTest(pattern, ref.title)
    /\ ~ (options.symbolType # "" /\ ref.kind # options.symbolType)
    /\ ~ PlatformMismatch(ref, options)

\* query.replace(/\*/g, '')
StripStars(query) == SelectSeq(query, LAMBDA c : c # "*")

\* scoreMatch with an empty stripped query put in the last tier
scoreMatchEmptyLast(title, query) ==
    LET lowerTitle == ToLowerCase(title)
        lowerQuery == ToLowerCase(StripStars(query))
    IN IF lowerQuery = <<>> THEN 3
       ELSE IF lowerTitle = lowerQuery THEN 0
       ELSE IF StartsWith(lowerTitle, lowerQuery) THEN 1
       ELSE IF Includes(lowerTitle, lowerQuery) THEN 2
       ELSE 3

scoreMatch(title, query) ==
    LET lowerTitle == ToLowerCase(title)
        lowerQuery == ToLowerCase(StripStars(query))
    IN IF lowerTitle = lowerQuery THEN 0
       ELSE IF StartsWith(lowerTitle, lowerQuery) THEN 1
       ELSE IF Includes(lowerTitle, lowerQuery) THEN 2
       ELSE 3

\* formatPlatforms: the display text is kept as the list of names
formatPlatforms(platforms) ==
    IF platforms = <<>> THEN <<"All platforms">> ELSE platforms

SearchResult(ref, frameworkName, framework) ==
    [title |-> ref.title, path |-> ref.url, framework |-> frameworkName,
     symbolKind |-> ref.kind,
     platforms |-> formatPlatforms(IF ref.hasPlatforms THEN ref.platforms
                                   ELSE framework.platforms)]

\* The forEach of searchFramework over refs[i..]: acc is `results`.  Gives
\* [ok, results]; ok is FALSE when matchesSearch throws on a null entry.
RECURSIVE Collect(_, _, _, _, _, _, _)
Collect(refs, i, acc, frameworkName, framework, query, options) ==
    IF i > Len(refs) THEN [ok |-> TRUE, results |-> acc]
    ELSE IF Len(acc) >= options.maxResults
         THEN Collect(refs, i + 1, acc, frameworkName, framework, query, options)
    ELSE IF refs[i].tag = "null" THEN [ok |-> FALSE, results |-> acc]
    ELSE IF matchesSearch(refs[i], createSearchPattern(query), options)
         THEN Collect(refs, i + 1,
                      Append(acc, SearchResult(refs[i], frameworkName, framework)),
                      frameworkName, framework, query, options)
    ELSE Collect(refs, i + 1, acc, frameworkName, framework, query, options)

\* x put into the sorted sequence s after every element that does not
\* compare greater: Array.prototype.sort is stable
RECURSIVE InsertByScore(_, _, _)
InsertByScore(s, x, query) ==
    IF s = <<>> THEN <<x>>
    ELSE IF scoreMatch(Head(s).title, query) - scoreMatch(x.title, query) <= 0
         THEN <<Head(s)>> \o InsertByScore(Tail(s), x, query)
         ELSE <<x>> \o s

\* results.sort((a, b) => scoreMatch(a.title, query) - scoreMatch(b.title, query))
RECURSIVE SortByScore(_, _)
SortByScore(s, query) ==
    IF s = <<>> THEN <<>>
    ELSE InsertByScore(SortByScore(SubSeq(s, 1, Len(s) - 1), query), s[Len(s)], query)

\* The defaults of maxResults: searchGlobal, searchFramework, handleSearchSymbols
DefaultGlobalMaxResults == 50
DefaultFrameworkMaxResults == 20
DefaultToolMaxResults == 20

\* s in reverse order
Reverse(s) == [i \in 1..Len(s) |-> s[Len(s) + 1 - i]]

\* The body of searchFramework with a sort that puts equal scores in the
\* reverse of their collection order
SearchFrameworkBodyTiesReversed(framework, frameworkName, query, options) ==
    IF framework.tag = "null" \/ ~ framework.hasRefs
    THEN [ok |-> FALSE, results |-> <<>>]
    ELSE LET maxResults == IF options.hasMaxResults THEN options.maxResults
                           ELSE DefaultFrameworkMaxResults
             c == Collect(framework.refs, 1, <<>>, frameworkName, framework, query,
                          [options EXCEPT !.maxResults = maxResults])
         IN [ok |-> c.ok, results |-> SortByScore(Reverse(c.results), query)]

\* The body of searchFramework with every passing entry collected and the
\* cap applied after the sort
SearchFrameworkBodyCapAfterSort(framework, frameworkName, query, options) ==
    IF framework.tag = "null" \/ ~ framework.hasRefs
    THEN [ok |-> FALSE, results |-> <<>>]
    ELSE LET maxResults == IF options.hasMaxResults THEN options.maxResults
                           ELSE DefaultFrameworkMaxResults
             c == Collect(framework.refs, 1, <<>>, frameworkName, framework, query,
                          [options EXCEPT !.maxResults = Len(framework.refs) + 1])
         IN [ok |-> c.ok, results |-> Take(SortByScore(c.results, query), maxResults)]

\* The body of searchFramework once the document `framework` has arrived:
\* [ok, results], ok FALSE when a TypeError is thrown (a null document, no
\* references, a null entry met before the cap is reached).
SearchFrameworkBody(framework, frameworkName, query, options) ==
    IF framework.tag = "null" \/ ~ framework.hasRefs
    THEN [ok |-> FALSE, results |-> <<>>]
    ELSE LET maxResults == IF options.hasMaxResults THEN options.maxResults
                           ELSE DefaultFrameworkMaxResults
             c == Collect(framework.refs, 1, <<>>, frameworkName, framework, query,
                          [options EXCEPT !.maxResults = maxResults])
         IN [ok |-> c.ok, results |-> SortByScore(c.results, query)]

-----------------------------------------------------------------------------
(* URLs, the request cache and makeRequest                                 *)

BASE_URL == <<"https://developer.apple.com/tutorials/data">>
Documentation == <<"d","o","c","u","m","e","n","t","a","t","i","o","n">>
TechnologiesName == <<"t","e","c","h","n","o","l","o","g","i","e","s">>
DotJson == <<".","j","s","o","n">>

\* `${BASE_URL}/documentation/technologies.json`
TechnologiesUrl == BASE_URL \o <<"/">> \o Documentation \o <<"/">> \o TechnologiesName \o DotJson

\* `${BASE_URL}/documentation/${frameworkName}.json`
FrameworkUrl(frameworkName) ==
    BASE_URL \o <<"/">> \o Documentation \o <<"/">> \o frameworkName \o DotJson

\* getSymbol's url: `${BASE_URL}/${cleanPath}.json`, a leading slash removed
SymbolUrl(path) ==
    LET cleanPath == IF StartsWith(path, <<"/">>) THEN Drop(path, 1) ELSE path
    IN BASE_URL \o <<"/">> \o cleanPath \o DotJson

cacheTimeout == 10 * 60 * 1000

\* The model's clock advances in steps of half the cache timeout, so that an
\* entry is read at the ages 0, 300000, 600000, 900000, ...
ClockStep == cacheTimeout \div 2

\* The cache check with the entry served up to and including age cacheTimeout
CacheFreshInclusive(c, url, t) ==
    url \in DOMAIN c /\ t - c[url].timestamp <= cacheTimeout

\* cached && Date.now() - cached.timestamp < this.cacheTimeout
CacheFresh(c, url, t) ==
    url \in DOMAIN c /\ t - c[url].timestamp < cacheTimeout

\* Map.prototype.set
MapSet(m, k, v) == [x \in DOMAIN m \cup {k} |-> IF x = k THEN v ELSE m[x]]

EmptyMap == [x \in {} |-> Null]

\* makeRequest up to its await: a fresh entry is returned, otherwise
\* axios.get is called.
MakeRequestCall(c, url, t) ==
    IF CacheFresh(c, url, t)
    THEN [tag |-> "hit", url |-> url, data |-> c[url].data]
    ELSE [tag |-> "net", url |-> url, data |-> Null]

NoReq == [tag |-> "none", url |-> <<>>, data |-> Null]

\* What axios can reject with
NetFailures == {"timeout of 15000ms exceeded", "Request failed with status code 404"}

\* new Error(`Failed to fetch documentation: ${error}`)
FetchError(f) ==
    Err("Error", [text |-> "Failed to fetch documentation",
                  cause |-> Err("AxiosError", [text |-> f])])

UpstreamHas(url) == url = TechnologiesUrl \/ url \in DOMAIN upstream.docs
UpstreamData(url) == IF url = TechnologiesUrl THEN upstream.index ELSE upstream.docs[url]

\* How the awaited makeRequest can end: a cache hit resolves with the cached
\* data; a network call resolves with the upstream document or rejects.
Outcomes(r) ==
    IF r.tag = "hit"
    THEN {[ok |-> TRUE, net |-> FALSE, data |-> r.data, err |-> NoError]}
    ELSE {[ok |-> TRUE, net |-> TRUE, data |-> UpstreamData(r.url), err |-> NoError] :
             x \in IF UpstreamHas(r.url) THEN {1} ELSE {}}
         \cup {[ok |-> FALSE, net |-> TRUE, data |-> Null, err |-> FetchError(f)] :
                 f \in NetFailures}

\* The cache with the timestamp of an entry renewed when it is served
CacheAfterTouchOnHit(c, r, out, t) ==
    IF out.ok
    THEN MapSet(c, r.url, [data |-> out.data, timestamp |-> t])
    ELSE c

\* The cache with a failure stored as an entry without data
CacheAfterFailureStored(c, r, out, t) ==
    IF out.net
    THEN MapSet(c, r.url, [data |-> out.data, timestamp |-> t])
    ELSE c

\* this.cache.set(url, {data: response.data, timestamp: Date.now()}) after a
\* successful network call; nothing otherwise
CacheAfter(c, r, out, t) ==
    IF out.net /\ out.ok
    THEN MapSet(c, r.url, [data |-> out.data, timestamp |-> t])
    ELSE c

StoredAfter(s, r, out, t) ==
    IF out.net /\ out.ok THEN MapSet(s, r.url, t) ELSE s

LastStored(s, url) == IF url \in DOMAIN s THEN s[url] ELSE -1

\* History of one makeRequest call: its url, when it was made, when the url
\* was last fetched successfully before (-1: never), whether it went to the
\* network, and how it ended.
TraceCall(tr, r, s, t) ==
    Append(tr, [url |-> r.url, at |-> t, lastStored |-> LastStored(s, r.url),
                net |-> r.tag = "net", state |-> "pending", err |-> NoError])

TraceEnd(tr, out) ==
    [tr EXCEPT ![Len(tr)].state = IF out.ok THEN "ok" ELSE "failed",
               ![Len(tr)].err = out.err]

-----------------------------------------------------------------------------
(* The client's fetchers and the pure parts of the handlers                *)

\* getTechnologies after its await: data.references || {}.  ok is FALSE when
\* the property access throws (data is null).
getTechnologies(data) ==
    IF data.tag = "null" THEN [ok |-> FALSE, technologies |-> <<>>]
    ELSE [ok |-> TRUE, technologies |-> IF data.hasRefs THEN data.refs ELSE <<>>]

\* The number of candidate frameworks one global search visits
MaxSearchFrameworks == 20

\* searchGlobal's candidates without frameworks.slice(0, 20)
SearchFrameworksUncapped(technologies) ==
    IF \E i \in 1..Len(technologies) : technologies[i].tag = "null"
    THEN [ok |-> FALSE, frameworks |-> <<>>]
    ELSE [ok |-> TRUE,
          frameworks |->
            SelectSeq(technologies,
                      LAMBDA tech : tech.kind = "symbol" /\ tech.role = "collection")]

\* searchGlobal's candidates: the technologies with kind 'symbol' and role
\* 'collection', the first 20 of them.  ok is FALSE when the filter callback
\* throws on a null technology.
SearchFrameworks(technologies) ==
    IF \E i \in 1..Len(technologies) : technologies[i].tag = "null"
    THEN [ok |-> FALSE, frameworks |-> <<>>]
    ELSE [ok |-> TRUE,
          frameworks |->
            Take(SelectSeq(technologies,
                           LAMBDA tech : tech.kind = "symbol" /\ tech.role = "collection"),
                 MaxSearchFrameworks)]

\* The whole of maxResults given to every candidate
SubCapWhole(maxResults) == maxResults

\* Math.ceil(maxResults / 4)
SubCap(maxResults) == (maxResults + 3) \div 4

\* The characters \s matches
Whitespace == {" ", "TAB", "LF", "CR", "LS", "PS", "VT", "FF", "NBSP"}

\* s.replace(/\s+/g, '')
RemoveWhitespace(s) == SelectSeq(s, LAMBDA c : c \notin Whitespace)

\* path.replace(/^documentation\//, '')
StripDocumentationPrefix(path) ==
    IF StartsWith(path, Documentation \o <<"/">>)
    THEN Drop(path, Len(Documentation) + 1)
    ELSE path

\* s.split('/')[0]
FirstSegment(s) ==
    IF \E i \in 1..Len(s) : s[i] = "/"
    THEN SubSeq(s, 1, (CHOOSE i \in 1..Len(s) :
                          s[i] = "/" /\ \A j \in 1..(i - 1) : s[j] # "/") - 1)
    ELSE s

\* The test checkIfTechnology makes of one technology against the path
TechnologyMatches(tech, path) ==
    LET cleanPath == StripDocumentationPrefix(path)
        potentialFramework == FirstSegment(cleanPath)
        title == ToLowerCase(tech.title)
    IN /\ tech.tag # "null"
       /\ tech.title # <<>>
       /\ \/ title = ToLowerCase(potentialFramework)
          \/ title = ToLowerCase(cleanPath)
          \/ RemoveWhitespace(title) = RemoveWhitespace(ToLowerCase(potentialFramework))
          \/ RemoveWhitespace(title) = RemoveWhitespace(ToLowerCase(cleanPath))

\* checkIfTechnology giving the title of the last technology that matches
checkIfTechnologyLastMatch(technologies, path) ==
    IF \E i \in 1..Len(technologies) : TechnologyMatches(technologies[i], path)
    THEN [found |-> TRUE,
          title |-> technologies[CHOOSE i \in 1..Len(technologies) :
                        /\ TechnologyMatches(technologies[i], path)
                        /\ \A j \in (i + 1)..Len(technologies) :
                              ~ TechnologyMatches(technologies[j], path)].title]
    ELSE [found |-> FALSE, title |-> <<>>]

\* checkIfTechnology after its await, for the technologies it got: the title
\* of the first technology that matches, or found = FALSE (return null)
checkIfTechnology(technologies, path) ==
    IF \E i \in 1..Len(technologies) : TechnologyMatches(technologies[i], path)
    THEN [found |-> TRUE,
          title |-> technologies[CHOOSE i \in 1..Len(technologies) :
                        /\ TechnologyMatches(technologies[i], path)
                        /\ \A j \in 1..(i - 1) : ~ TechnologyMatches(technologies[j], path)].title]
    ELSE [found |-> FALSE, title |-> <<>>]

\* Whether handleGetDocumentation renders a fetched document without
\* throwing (data.metadata is read first; the other accesses are guarded)
SymbolRenders(data) == data.tag # "null"

\* Whether handleTechnologyFallback renders a fetched document without
\* throwing: data.metadata is read, and data.topicSections.map is called
\* without a guard
FallbackRenders(data) == data.tag # "null" /\ data.hasTopics

\* What a tool call gives its caller
NoResult == [tag |-> "none"]
Returned(payload) == [tag |-> "ok", payload |-> payload]

\* The catch of the CallToolRequestSchema handler: every error thrown inside
\* is thrown again as McpError(InternalError, `Error executing tool: ${message}`)
Thrown(error) ==
    [tag |-> "error", code |-> "InternalError",
     message |-> [text |-> "Error executing tool", cause |-> error.message]]

SymbolPayload(path) == [kind |-> "symbol", path |-> path]
FrameworkDetectedPayload(frameworkName, originalPath) ==
    [kind |-> "frameworkDetected", frameworkName |-> frameworkName, path |-> originalPath]
NotFoundPayload(originalPath) == [kind |-> "notFound", path |-> originalPath]
SearchPayload(results) == [kind |-> "searchResults", results |-> results]
TechnologiesPayload(technologies) == [kind |-> "technologies", technologies |-> technologies]

\* new Error(`Framework search failed for ${frameworkName}: ${error}`)
FrameworkSearchError(frameworkName, error) ==
    Err("Error", [text |-> "Framework search failed for", name |-> frameworkName,
                  cause |-> error])

\* new Error(`Global search failed: ${error}`)
GlobalSearchError(error) == Err("Error", [text |-> "Global search failed", cause |-> error])

\* The end of handleGetDocumentation's catch block with the guidance payload
\* returned instead of the error thrown
detectionFailedReturnsNotFound(error, path) == Returned(NotFoundPayload(path))

\* The end of handleGetDocumentation's catch block when checkIfTechnology
\* returned null: throw error (the error getSymbol or the rendering threw)
detectionFailed(error, path) == Thrown(error)

\* The catch block of handleTechnologyFallback with the error thrown instead
fallbackCatchThrows(error, originalPath) == Thrown(error)

\* The catch block of handleTechnologyFallback: the guidance payload
fallbackCatch(error, originalPath) == Returned(NotFoundPayload(originalPath))

\* handleTechnologyFallback after getFramework
handleTechnologyFallback(out, frameworkName, originalPath) ==
    IF out.ok /\ FallbackRenders(out.data)
    THEN Returned(FrameworkDetectedPayload(frameworkName, originalPath))
    ELSE fallbackCatch(IF out.ok THEN TypeError ELSE out.err, originalPath)

NoArgs ==
    [tool |-> "", path |-> <<>>, query |-> <<>>, framework |-> <<>>, symbolType |-> "",
     platform |-> <<>>, hasMaxResults |-> FALSE, maxResults |-> 0]

\* The locals of a handler: the caught error, what checkIfTechnology returned
\* ("": not called yet), searchGlobal's candidates, loop index, results and cap
NoLocals ==
    [err |-> NoError, detected |-> "", frameworks |-> <<>>, i |-> 0, results |-> <<>>,
     maxResults |-> 0]

\* handleSearchSymbols passing maxResults on as given, so that an absent one
\* takes the default of searchGlobal or searchFramework
ToolOptionsAsGiven(a) ==
    [symbolType |-> a.symbolType, platform |-> a.platform,
     hasMaxResults |-> a.hasMaxResults, maxResults |-> a.maxResults]

\* The options handleSearchSymbols passes on: maxResults defaults to 20
ToolOptions(a) ==
    [symbolType |-> a.symbolType, platform |-> a.platform, hasMaxResults |-> TRUE,
     maxResults |-> IF a.hasMaxResults THEN a.maxResults ELSE DefaultToolMaxResults]

-----------------------------------------------------------------------------
(* The tool calls.  One action per stretch of a handler between two awaits; *)
(* the await of makeRequest ends with one of Outcomes(req).                 *)

\* The handler returns or throws: the tool call is over
Finish(res, c1, s1, t1, l1) ==
    /\ pc' = "idle"
    /\ result' = res
    /\ req' = NoReq
    /\ cache' = c1
    /\ stored' = s1
    /\ trace' = t1
    /\ loc' = l1
    /\ UNCHANGED <<now, upstream, args, ncalls, fnIn, fnOut, calls>>

\* The handler calls makeRequest(url) and awaits it at nextpc
Await(nextpc, url, c1, s1, t1, l1) ==
    LET r == MakeRequestCall(c1, url, now)
    IN /\ pc' = nextpc
       /\ req' = r
       /\ cache' = c1
       /\ stored' = s1
       /\ trace' = TraceCall(t1, r, s1, now)
       /\ loc' = l1
       /\ UNCHANGED <<now, upstream, args, result, ncalls, fnIn, fnOut, calls>>

\* A tool call arrives: the first makeRequest of its handler is made
Dispatch(a, nextpc, url) ==
    LET r == MakeRequestCall(cache, url, now)
    IN /\ pc = "idle"
       /\ args' = a
       /\ pc' = nextpc
       /\ req' = r
       /\ trace' = TraceCall(<<>>, r, stored, now)
       /\ loc' = NoLocals
       /\ result' = NoResult
       /\ ncalls' = ncalls + 1
       /\ UNCHANGED <<now, cache, upstream, stored, fnIn, fnOut, calls>>

\* get_documentation: handleGetDocumentation calls getSymbol(path)
GetDocumentation(path) ==
    Dispatch([NoArgs EXCEPT !.tool = "get_documentation", !.path = path],
             "gd_symbol", SymbolUrl(path))

\* search_symbols: handleSearchSymbols calls searchFramework when a framework
\* is given and searchGlobal otherwise; both start with a fetch
SearchSymbols(a) ==
    IF a.framework # <<>>
    THEN Dispatch(a, "sf_fetch", FrameworkUrl(a.framework))
    ELSE Dispatch(a, "sg_index", TechnologiesUrl)

\* list_technologies: handleListTechnologies calls getTechnologies
ListTechnologies ==
    Dispatch([NoArgs EXCEPT !.tool = "list_technologies"], "lt_index", TechnologiesUrl)

\* handleGetDocumentation after getSymbol: the rendered symbol, or the catch
\* block, which starts checkIfTechnology (a fetch of the index)
GetDocumentation_AfterSymbol ==
    /\ pc = "gd_symbol"
    /\ \E out \in Outcomes(req) :
         LET c1 == CacheAfter(cache, req, out, now)
             s1 == StoredAfter(stored, req, out, now)
             t1 == TraceEnd(trace, out)
         IN IF out.ok /\ SymbolRenders(out.data)
            THEN Finish(Returned(SymbolPayload(args.path)), c1, s1, t1, loc)
            ELSE Await("gd_index", TechnologiesUrl, c1, s1, t1,
                       [loc EXCEPT !.err = IF out.ok THEN TypeError ELSE out.err])

\* checkIfTechnology letting the error of a failed index fetch through
GetDocumentation_AfterIndexReports ==
    /\ pc = "gd_index"
    /\ \E out \in Outcomes(req) :
         LET c1 == CacheAfter(cache, req, out, now)
             s1 == StoredAfter(stored, req, out, now)
             t1 == TraceEnd(trace, out)
             techs == IF out.ok THEN getTechnologies(out.data)
                      ELSE [ok |-> FALSE, technologies |-> <<>>]
             frameworkName == IF techs.ok THEN checkIfTechnology(techs.technologies, args.path)
                              ELSE [found |-> FALSE, title |-> <<>>]
         IN IF frameworkName.found
            THEN Await("gd_framework", FrameworkUrl(frameworkName.title), c1, s1, t1,
                       [loc EXCEPT !.frameworks = <<frameworkName.title>>,
                                   !.detected = "yes"])
            ELSE Finish(detectionFailed(IF out.ok THEN loc.err ELSE out.err, args.path),
                        c1, s1, t1, [loc EXCEPT !.detected = "no"])

\* checkIfTechnology after getTechnologies, then the rest of the catch block:
\* the original error is thrown again when no technology is detected,
\* otherwise handleTechnologyFallback fetches the framework
GetDocumentation_AfterIndex ==
    /\ pc = "gd_index"
    /\ \E out \in Outcomes(req) :
         LET c1 == CacheAfter(cache, req, out, now)
             s1 == StoredAfter(stored, req, out, now)
             t1 == TraceEnd(trace, out)
             techs == IF out.ok THEN getTechnologies(out.data)
                      ELSE [ok |-> FALSE, technologies |-> <<>>]
             frameworkName == IF techs.ok THEN checkIfTechnology(techs.technologies, args.path)
                              ELSE [found |-> FALSE, title |-> <<>>]
         IN IF frameworkName.found
            THEN Await("gd_framework", FrameworkUrl(frameworkName.title), c1, s1, t1,
                       [loc EXCEPT !.frameworks = <<frameworkName.title>>,
                                   !.detected = "yes"])
            ELSE Finish(detectionFailed(loc.err, args.path), c1, s1, t1,
                        [loc EXCEPT !.detected = "no"])

\* handleTechnologyFallback fetching the framework again after a failure
GetDocumentation_AfterFrameworkRetries ==
    /\ pc = "gd_framework"
    /\ \E out \in Outcomes(req) :
         IF out.ok
         THEN Finish(handleTechnologyFallback(out, loc.frameworks[1], args.path),
                     CacheAfter(cache, req, out, now), StoredAfter(stored, req, out, now),
                     TraceEnd(trace, out), loc)
         ELSE Await("gd_framework", FrameworkUrl(loc.frameworks[1]), cache, stored,
                    TraceEnd(trace, out), loc)

\* handleTechnologyFallback after getFramework
GetDocumentation_AfterFramework ==
    /\ pc = "gd_framework"
    /\ \E out \in Outcomes(req) :
         Finish(handleTechnologyFallback(out, loc.frameworks[1], args.path),
                CacheAfter(cache, req, out, now), StoredAfter(stored, req, out, now),
                TraceEnd(trace, out), loc)

\* searchFramework with its catch block returning no results
searchFrameworkSwallows(out, frameworkName, query, options) ==
    IF out.ok /\ SearchFrameworkBody(out.data, frameworkName, query, options).ok
    THEN [ok |-> TRUE, err |-> NoError,
          results |-> SearchFrameworkBody(out.data, frameworkName, query, options).results]
    ELSE [ok |-> TRUE, results |-> <<>>, err |-> NoError]

\* searchFramework after getFramework: the sorted results, or the error its
\* catch block throws
searchFramework(out, frameworkName, query, options) ==
    IF out.ok
    THEN LET body == SearchFrameworkBody(out.data, frameworkName, query, options)
         IN IF body.ok THEN [ok |-> TRUE, results |-> body.results, err |-> NoError]
            ELSE [ok |-> FALSE, results |-> <<>>,
                  err |-> FrameworkSearchError(frameworkName, TypeError)]
    ELSE [ok |-> FALSE, results |-> <<>>, err |-> FrameworkSearchError(frameworkName, out.err)]

SearchFramework_AfterFetch ==
    /\ pc = "sf_fetch"
    /\ \E out \in Outcomes(req) :
         LET c1 == CacheAfter(cache, req, out, now)
             s1 == StoredAfter(stored, req, out, now)
             t1 == TraceEnd(trace, out)
             r == searchFramework(out, args.framework, args.query, ToolOptions(args))
         IN IF r.ok
            THEN Finish(Returned(SearchPayload(r.results)), c1, s1, t1,
                        [loc EXCEPT !.results = r.results])
            ELSE Finish(Thrown(r.err), c1, s1, t1, loc)

\* The loop of searchGlobal returning `results` whole
SearchGlobal_LoopNoSlice(c1, s1, t1, l1) ==
    IF l1.i > Len(l1.frameworks) \/ Len(l1.results) >= l1.maxResults
    THEN Finish(Returned(SearchPayload(l1.results)), c1, s1, t1, l1)
    ELSE Await("sg_framework", FrameworkUrl(l1.frameworks[l1.i].title), c1, s1, t1, l1)

\* The loop of searchGlobal returning `results` sorted by score before the cut
SearchGlobal_LoopReranked(c1, s1, t1, l1) ==
    IF l1.i > Len(l1.frameworks) \/ Len(l1.results) >= l1.maxResults
    THEN Finish(Returned(SearchPayload(Take(SortByScore(l1.results, args.query),
                                            l1.maxResults))), c1, s1, t1, l1)
    ELSE Await("sg_framework", FrameworkUrl(l1.frameworks[l1.i].title), c1, s1, t1, l1)

\* The head of searchGlobal's for loop at candidate i with `results`: the
\* loop ends (return results.slice(0, maxResults)) or searchFramework is
\* called for the candidate with the sub-cap
SearchGlobal_Loop(c1, s1, t1, l1) ==
    IF l1.i > Len(l1.frameworks) \/ Len(l1.results) >= l1.maxResults
    THEN Finish(Returned(SearchPayload(Take(l1.results, l1.maxResults))), c1, s1, t1, l1)
    ELSE Await("sg_framework", FrameworkUrl(l1.frameworks[l1.i].title), c1, s1, t1, l1)

\* searchGlobal after getTechnologies
SearchGlobal_AfterIndex ==
    /\ pc = "sg_index"
    /\ \E out \in Outcomes(req) :
         LET c1 == CacheAfter(cache, req, out, now)
             s1 == StoredAfter(stored, req, out, now)
             t1 == TraceEnd(trace, out)
             options == ToolOptions(args)
             maxResults == IF options.hasMaxResults THEN options.maxResults
                           ELSE DefaultGlobalMaxResults
             techs == IF out.ok THEN getTechnologies(out.data)
                      ELSE [ok |-> FALSE, technologies |-> <<>>]
             fws == IF techs.ok THEN SearchFrameworks(techs.technologies)
                    ELSE [ok |-> FALSE, frameworks |-> <<>>]
         IN IF fws.ok
            THEN SearchGlobal_Loop(c1, s1, t1,
                         [loc EXCEPT !.frameworks = fws.frameworks, !.i = 1,
                                     !.maxResults = maxResults])
            ELSE Finish(Thrown(GlobalSearchError(IF out.ok THEN TypeError ELSE out.err)),
                        c1, s1, t1, loc)

\* searchGlobal after the searchFramework of candidate i: its results are
\* pushed, or its error is caught and logged; then the next candidate
SearchGlobal_AfterFramework ==
    /\ pc = "sg_framework"
    /\ \E out \in Outcomes(req) :
         LET c1 == CacheAfter(cache, req, out, now)
             s1 == StoredAfter(stored, req, out, now)
             t1 == TraceEnd(trace, out)
             options == ToolOptions(args)
             r == searchFramework(out, loc.frameworks[loc.i].title, args.query,
                                  [options EXCEPT !.maxResults = SubCap(loc.maxResults)])
         IN SearchGlobal_Loop(c1, s1, t1,
                    [loc EXCEPT !.i = loc.i + 1,
                                !.results = IF r.ok THEN loc.results \o r.results
                                            ELSE loc.results])

\* handleListTechnologies after getTechnologies: the forEach callback reads
\* tech.kind and throws on a null technology
ListTechnologies_AfterIndex ==
    /\ pc = "lt_index"
    /\ \E out \in Outcomes(req) :
         LET c1 == CacheAfter(cache, req, out, now)
             s1 == StoredAfter(stored, req, out, now)
             t1 == TraceEnd(trace, out)
             techs == IF out.ok THEN getTechnologies(out.data)
                      ELSE [ok |-> FALSE, technologies |-> <<>>]
         IN IF ~ out.ok THEN Finish(Thrown(out.err), c1, s1, t1, loc)
            ELSE IF ~ techs.ok \/ \E i \in 1..Len(techs.technologies) :
                                     techs.technologies[i].tag = "null"
            THEN Finish(Thrown(TypeError), c1, s1, t1, loc)
            ELSE Finish(Returned(TechnologiesPayload(techs.technologies)), c1, s1, t1, loc)

\* Time passes, while no tool call runs or while the running one waits for
\* the network (a handler runs without interruption between two awaits, and
\* the await of a cache hit ends at once)
Tick ==
    /\ pc = "idle" \/ req.tag = "net"
    /\ now < MaxTicks * ClockStep
    /\ now' = now + ClockStep
    /\ UNCHANGED <<cache, upstream, pc, args, req, loc, result, trace, stored,
                   ncalls, fnIn, fnOut, calls>>

-----------------------------------------------------------------------------
(* The upstream documents and the tool calls of the model                  *)

SwiftUI == <<"S","w","i","f","t","U","I">>
UIKit == <<"U","I","K","i","t">>
FoundationModels == <<"F","o","u","n","d","a","t","i","o","n"," ","M","o","d","e","l","s">>
Xcode == <<"X","c","o","d","e">>
View == <<"V","i","e","w">>
UIView == <<"U","I","V","i","e","w">>
Text == <<"T","e","x","t">>
iOS == <<"i","O","S">>
macOS == <<"m","a","c","O","S">>

\* documentation/SwiftUI.json: a well-formed framework document
SwiftUIDoc ==
    Doc(TRUE,
        <<Ref(UIView, "class", TRUE, <<macOS>>, 1),
          Ref(View, "protocol", FALSE, <<>>, 2),
          Ref(Text, "struct", TRUE, <<iOS>>, 3)>>,
        TRUE, <<iOS, macOS>>)

\* documentation/UIKit.json: a document without topicSections
UIKitDoc ==
    Doc(TRUE,
        <<Ref(View, "class", TRUE, <<iOS>>, 4),
          Ref(UIView, "class", TRUE, <<iOS>>, 5)>>,
        FALSE, <<>>)

\* documentation/Foundation Models.json
FoundationModelsDoc ==
    Doc(TRUE,
        <<Ref(Text, "struct", FALSE, <<>>, 6),
          Ref(UIView, "struct", TRUE, <<iOS>>, 7),
          Ref(View, "class", TRUE, <<macOS>>, 8)>>,
        TRUE, <<macOS>>)

\* documentation/SwiftUI/View.json: a symbol document
ViewDoc == Doc(FALSE, <<>>, TRUE, <<iOS>>)

ViewPath == Documentation \o <<"/">> \o SwiftUI \o <<"/">> \o View

\* The documents the upstream serves besides the index; no document exists
\* under any other name
MainDocs ==
    (FrameworkUrl(SwiftUI) :> SwiftUIDoc) @@ (FrameworkUrl(UIKit) :> UIKitDoc)
    @@ (FrameworkUrl(FoundationModels) :> FoundationModelsDoc)
    @@ (SymbolUrl(ViewPath) :> ViewDoc)

\* The shapes of the technology index: well-formed, with a null entry,
\* without references, null
MainIndexes ==
    { IndexDoc(TRUE, <<Tech(SwiftUI, "symbol", "collection"),
                       Tech(Xcode, "article", "collection"),
                       Tech(FoundationModels, "symbol", "collection"),
                       Tech(UIKit, "symbol", "collection")>>),
      IndexDoc(TRUE, <<Tech(SwiftUI, "symbol", "collection"), Null>>),
      IndexDoc(FALSE, <<>>),
      Null }

\* The paths get_documentation is called with
MainPaths ==
    { SwiftUI, ViewPath, <<"N","o","p","e">>,
      <<"f","o","u","n","d","a","t","i","o","n","m","o","d","e","l","s">>,
      Documentation \o <<"/">> \o UIKit }

\* The arguments search_symbols is called with
MainSearches ==
    { [NoArgs EXCEPT !.tool = "search_symbols", !.query = <<"*">> \o View \o <<"*">>,
                     !.framework = SwiftUI],
      [NoArgs EXCEPT !.tool = "search_symbols", !.query = View,
                     !.hasMaxResults = TRUE, !.maxResults = 2] }

NoFn == [fn |-> "none"]

\* The tool invocations that may overlap, and none of them in makeRequest
Invocations == {1, 2}
NoCall == [state |-> "idle", req |-> NoReq, overlapped |-> FALSE, ok |-> FALSE, data |-> Null]
NoCalls == [p \in Invocations |-> NoCall]

Init ==
    /\ now = 0
    /\ cache = EmptyMap
    /\ upstream \in {[index |-> i, docs |-> MainDocs] : i \in MainIndexes}
    /\ pc = "idle"
    /\ args = NoArgs
    /\ req = NoReq
    /\ loc = NoLocals
    /\ result = NoResult
    /\ trace = <<>>
    /\ stored = EmptyMap
    /\ ncalls = 0
    /\ fnIn = NoFn
    /\ fnOut = NoFn
    /\ calls = NoCalls

\* The tool names the switch of the handler has no case for
UnknownTools == {"get_symbol"}

\* new McpError(ErrorCode.MethodNotFound, `Unknown tool: ${request.params.name}`)
UnknownToolError(name) ==
    Err("McpError", [text |-> "Unknown tool", code |-> "MethodNotFound", name |-> name])

\* A call of a tool the switch does not know: the default branch throws
\* inside the try block, and the catch of the handler throws it again
UnknownTool(name) ==
    /\ pc = "idle"
    /\ args' = [NoArgs EXCEPT !.tool = name]
    /\ result' = Thrown(UnknownToolError(name))
    /\ trace' = <<>>
    /\ loc' = NoLocals
    /\ ncalls' = ncalls + 1
    /\ UNCHANGED <<now, cache, upstream, pc, req, stored, fnIn, fnOut, calls>>

CallUnknownTool == ncalls < MaxCalls /\ \E name \in UnknownTools : UnknownTool(name)
CallGetDocumentation == ncalls < MaxCalls /\ \E path \in MainPaths : GetDocumentation(path)
CallSearchSymbols == ncalls < MaxCalls /\ \E a \in MainSearches : SearchSymbols(a)
CallListTechnologies == ncalls < MaxCalls /\ ListTechnologies

Next ==
    \/ CallGetDocumentation
    \/ CallSearchSymbols
    \/ CallListTechnologies
    \/ CallUnknownTool
    \/ GetDocumentation_AfterSymbol
    \/ GetDocumentation_AfterIndex
    \/ GetDocumentation_AfterFramework
    \/ SearchFramework_AfterFetch
    \/ SearchGlobal_AfterIndex
    \/ SearchGlobal_AfterFramework
    \/ ListTechnologies_AfterIndex
    \/ Tick

Spec == Init /\ [][Next]_vars

-----------------------------------------------------------------------------
(* One search_symbols call on a new client, over more documents and        *)
(* arguments than Spec takes                                               *)

\* The entries a framework document is built from: with and without
\* platforms, two with the same title, one without title, one null
SearchRefs ==
    { Ref(UIView, "class", TRUE, <<macOS>>, 1),
      Ref(View, "protocol", FALSE, <<>>, 2),
      Ref(Text, "struct", TRUE, <<iOS>>, 3),
      Ref(View, "class", TRUE, <<iOS, macOS>>, 4),
      Ref(<<>>, "class", TRUE, <<iOS>>, 5),
      Null }

\* The reference maps of at most MaxRefs entries (a map holds an entry once)
SearchRefMaps ==
    { m \in UNION {[1..k -> SearchRefs] : k \in 0..MaxRefs} :
        \A i, j \in 1..Len(m) : i # j => m[i] # m[j] }

\* documentation/SwiftUI.json in the search runs: any reference map, or a
\* document without references, or null
SearchDocs ==
    {Doc(TRUE, m, TRUE, <<iOS, macOS>>) : m \in SearchRefMaps}
    \cup {Doc(FALSE, <<>>, TRUE, <<>>), Null}

SearchWorlds ==
    {[index |-> i, docs |-> MainDocs] : i \in MainIndexes}
    \cup {[index |-> IndexDoc(TRUE, <<Tech(SwiftUI, "symbol", "collection")>>),
           docs |-> (FrameworkUrl(SwiftUI) :> d)] : d \in SearchDocs}

SearchQueries == {View, <<"*">>, <<"?","i","e","w">>}

SearchArgs ==
    { [NoArgs EXCEPT !.tool = "search_symbols", !.query = q, !.framework = f,
                     !.symbolType = st, !.platform = pl,
                     !.hasMaxResults = m >= 0, !.maxResults = IF m >= 0 THEN m ELSE 0] :
        q \in SearchQueries, f \in {<<>>, SwiftUI}, st \in {"", "class"},
        pl \in {<<>>, <<"i","o","s">>}, m \in {-1, 0, 1, 2, 5} }

InitSearch ==
    /\ now = 0
    /\ cache = EmptyMap
    /\ upstream \in SearchWorlds
    /\ pc = "idle"
    /\ args = NoArgs
    /\ req = NoReq
    /\ loc = NoLocals
    /\ result = NoResult
    /\ trace = <<>>
    /\ stored = EmptyMap
    /\ ncalls = 0
    /\ fnIn = NoFn
    /\ fnOut = NoFn
    /\ calls = NoCalls

CallSearchOnce == ncalls = 0 /\ \E a \in SearchArgs : SearchSymbols(a)

NextSearch ==
    \/ CallSearchOnce
    \/ SearchFramework_AfterFetch
    \/ SearchGlobal_AfterIndex
    \/ SearchGlobal_AfterFramework

SpecSearch == InitSearch /\ [][NextSearch]_vars

-----------------------------------------------------------------------------
(* createSearchPattern applied to one query and one title                  *)

QueryChars == {"a", "B", "*", "?", "."}
TitleChars == {"A", "b", ".", "LF"}

InitPattern ==
    /\ now = 0
    /\ cache = EmptyMap
    /\ upstream = [index |-> Null, docs |-> EmptyMap]
    /\ pc = "idle"
    /\ args = NoArgs
    /\ req = NoReq
    /\ loc = NoLocals
    /\ result = NoResult
    /\ trace = <<>>
    /\ stored = EmptyMap
    /\ ncalls = 0
    /\ fnIn \in {[fn |-> "createSearchPattern", query |-> q, title |-> t] :
                    q \in StringsUpTo(QueryChars, MaxQueryLen),
                    t \in StringsUpTo(TitleChars, MaxTitleLen)}
    /\ fnOut = NoFn
    /\ calls = NoCalls

\* pattern = createSearchPattern(query); pattern.test(title)
ApplyPattern ==
    /\ fnIn.fn = "createSearchPattern"
    /\ fnOut = NoFn
    /\ fnOut' = [fn |-> "createSearchPattern",
                 accepted |-> RegexTest(createSearchPattern(fnIn.query), fnIn.title)]
    /\ UNCHANGED <<now, cache, upstream, pc, args, req, loc, result, trace, stored,
                   ncalls, fnIn, calls>>

NextPattern == ApplyPattern

SpecPattern == InitPattern /\ [][NextPattern]_vars

-----------------------------------------------------------------------------
(* scoreMatch applied to one title and one query                           *)

ScoreQueryChars == {"a", "B", "*", "?"}
ScoreTitleChars == {"A", "b", "?"}

InitScore ==
    /\ now = 0
    /\ cache = EmptyMap
    /\ upstream = [index |-> Null, docs |-> EmptyMap]
    /\ pc = "idle"
    /\ args = NoArgs
    /\ req = NoReq
    /\ loc = NoLocals
    /\ result = NoResult
    /\ trace = <<>>
    /\ stored = EmptyMap
    /\ ncalls = 0
    /\ fnIn \in {[fn |-> "scoreMatch", title |-> t, query |-> q] :
                    t \in StringsUpTo(ScoreTitleChars, MaxTitleLen),
                    q \in StringsUpTo(ScoreQueryChars, MaxQueryLen)}
    /\ fnOut = NoFn
    /\ calls = NoCalls

\* this.scoreMatch(title, query)
ApplyScore ==
    /\ fnIn.fn = "scoreMatch"
    /\ fnOut = NoFn
    /\ fnOut' = [fn |-> "scoreMatch", score |-> scoreMatch(fnIn.title, fnIn.query)]
    /\ UNCHANGED <<now, cache, upstream, pc, args, req, loc, result, trace, stored,
                   ncalls, fnIn, calls>>

NextScore == ApplyScore

SpecScore == InitScore /\ [][NextScore]_vars

-----------------------------------------------------------------------------
(* One search_symbols call on a client that has fetched before, over an    *)
(* index of more than 20 frameworks and a document of more than 20 entries *)

Digits == <<"0", "1", "2", "3", "4", "5", "6", "7", "8", "9">>

\* The title of the n-th technology of the large index
Fw(n) == <<"F", "w", Digits[((n \div 10) % 10) + 1], Digits[(n % 10) + 1]>>

\* The large index: the 3rd technology is an article and the 7th a symbol
\* that is no collection; every other one is a framework
LargeIndex ==
    IndexDoc(TRUE,
             [n \in 1..MaxTechnologies |->
                IF n = 3 THEN Tech(Fw(n), "article", "collection")
                ELSE IF n = 7 THEN Tech(Fw(n), "symbol", "collectionGroup")
                ELSE Tech(Fw(n), "symbol", "collection")])

\* documentation/<Fw(n)>.json: the first framework has MaxLargeRefs entries
\* titled View, the others three entries
LargeDoc(n) ==
    IF n = 1
    THEN Doc(TRUE, [k \in 1..MaxLargeRefs |-> Ref(View, "class", TRUE, <<iOS>>, 100 + k)],
             TRUE, <<iOS>>)
    ELSE Doc(TRUE,
             <<Ref(UIView, "class", TRUE, <<iOS>>, 100 * n + 1),
               Ref(View, "protocol", TRUE, <<iOS>>, 100 * n + 2),
               Ref(Text, "struct", TRUE, <<iOS>>, 100 * n + 3)>>,
             TRUE, <<iOS>>)

LargeDocs ==
    [u \in {FrameworkUrl(Fw(n)) : n \in 1..MaxTechnologies} |->
        LargeDoc(CHOOSE n \in 1..MaxTechnologies : FrameworkUrl(Fw(n)) = u)]

LargeWorld == [index |-> LargeIndex, docs |-> LargeDocs]

\* The urls the client has not fetched yet
ColdUrls ==
    { {},
      {FrameworkUrl(Fw(2)), FrameworkUrl(Fw(22))},
      {TechnologiesUrl, FrameworkUrl(Fw(5))} }

LargeUrls == {TechnologiesUrl} \cup DOMAIN LargeDocs

\* The cache after every url but the cold ones was fetched at time 0
WarmCache(cold) ==
    [u \in LargeUrls \ cold |->
        [data |-> IF u = TechnologiesUrl THEN LargeIndex ELSE LargeDocs[u],
         timestamp |-> 0]]

LargeArgs ==
    { [NoArgs EXCEPT !.tool = "search_symbols", !.query = q, !.framework = f,
                     !.hasMaxResults = m >= 0, !.maxResults = IF m >= 0 THEN m ELSE 0] :
        q \in {<<"*">>, UIView, <<"N", "o", "n", "e">>}, f \in {<<>>, Fw(1)},
        m \in {-1, 2, 100} }

InitLarge ==
    /\ now = 0
    /\ upstream = LargeWorld
    /\ \E cold \in ColdUrls :
         /\ cache = WarmCache(cold)
         /\ stored = [u \in LargeUrls \ cold |-> 0]
    /\ pc = "idle"
    /\ args = NoArgs
    /\ req = NoReq
    /\ loc = NoLocals
    /\ result = NoResult
    /\ trace = <<>>
    /\ ncalls = 0
    /\ fnIn = NoFn
    /\ fnOut = NoFn
    /\ calls = NoCalls

CallSearchLarge == ncalls = 0 /\ \E a \in LargeArgs : SearchSymbols(a)

NextLarge ==
    \/ CallSearchLarge
    \/ SearchFramework_AfterFetch
    \/ SearchGlobal_AfterIndex
    \/ SearchGlobal_AfterFramework

SpecLarge == InitLarge /\ [][NextLarge]_vars

-----------------------------------------------------------------------------
(* makeRequest called by tool invocations that overlap: the handlers are   *)
(* async, so a second invocation can run while the first awaits axios.get  *)

OverlapUrls == {TechnologiesUrl, FrameworkUrl(SwiftUI)}

InitOverlap ==
    /\ now = 0
    /\ upstream = [index |-> IndexDoc(TRUE, <<Tech(SwiftUI, "symbol", "collection")>>),
                   docs |-> MainDocs]
    /\ \E cold \in {OverlapUrls, {FrameworkUrl(SwiftUI)}} :
         /\ cache = [u \in OverlapUrls \ cold |-> [data |-> UpstreamData(u), timestamp |-> 0]]
         /\ stored = [u \in OverlapUrls \ cold |-> 0]
    /\ pc = "idle"
    /\ args = NoArgs
    /\ req = NoReq
    /\ loc = NoLocals
    /\ result = NoResult
    /\ trace = <<>>
    /\ ncalls = 0
    /\ fnIn = NoFn
    /\ fnOut = NoFn
    /\ calls = NoCalls

\* makeRequest(url) by invocation p up to its await: the cache check, then
\* the return of the cached data or the call of axios.get
MakeRequest_Call(p, url) ==
    /\ calls[p].state = "idle"
    /\ LET r == MakeRequestCall(cache, url, now)
       IN calls' = [calls EXCEPT ![p] =
                      [state |-> "awaiting", req |-> r, ok |-> FALSE, data |-> Null,
                       overlapped |-> \E q \in Invocations \ {p} :
                                         /\ calls[q].state = "awaiting"
                                         /\ calls[q].req.url = url]]
    /\ UNCHANGED <<now, cache, upstream, pc, args, req, loc, result, trace, stored,
                   ncalls, fnIn, fnOut>>

\* makeRequest of invocation p after its await: cache.set and return, or throw
MakeRequest_Return(p) ==
    /\ calls[p].state = "awaiting"
    /\ \E out \in Outcomes(calls[p].req) :
         /\ cache' = CacheAfter(cache, calls[p].req, out, now)
         /\ stored' = StoredAfter(stored, calls[p].req, out, now)
         /\ calls' = [calls EXCEPT ![p].state = "done", ![p].ok = out.ok,
                                   ![p].data = out.data]
    /\ UNCHANGED <<now, upstream, pc, args, req, loc, result, trace, ncalls, fnIn, fnOut>>

CallMakeRequest == \E p \in Invocations, url \in OverlapUrls : MakeRequest_Call(p, url)
ReturnMakeRequest == \E p \in Invocations : MakeRequest_Return(p)

NextOverlap ==
    \/ CallMakeRequest
    \/ ReturnMakeRequest
    \/ Tick

SpecOverlap == InitOverlap /\ [][NextOverlap]_vars

(* One get_documentation call on a new client, over more paths, indexes   *)
(* and documents than Spec takes                                           *)

FoundationModelsJoined ==
    <<"F","o","u","n","d","a","t","i","o","n","M","o","d","e","l","s">>

\* documentation/SwiftUI/Text.json is served with the body null
TextPath == Documentation \o <<"/">> \o SwiftUI \o <<"/">> \o Text

LookupDocs == MainDocs @@ (SymbolUrl(TextPath) :> Null)

\* The shapes of the technology index: two titles that differ in whitespace
\* only, in both orders; entries that are null, without title or with a
\* blank title; no references; null
LookupIndexes ==
    { IndexDoc(TRUE, <<Tech(SwiftUI, "symbol", "collection"),
                       Tech(FoundationModels, "symbol", "collection"),
                       Tech(FoundationModelsJoined, "symbol", "collection"),
                       Tech(UIKit, "symbol", "collection")>>),
      IndexDoc(TRUE, <<Tech(UIKit, "symbol", "collection"),
                       Tech(FoundationModelsJoined, "symbol", "collection"),
                       Tech(FoundationModels, "symbol", "collection")>>),
      IndexDoc(TRUE, <<Null, Tech(<<>>, "symbol", "collection"),
                       Tech(SwiftUI, "symbol", "collection")>>),
      IndexDoc(TRUE, <<Tech(<<" ">>, "article", "collection"),
                       Tech(SwiftUI, "symbol", "collection")>>),
      IndexDoc(FALSE, <<>>),
      Null }

LookupWorlds == {[index |-> i, docs |-> LookupDocs] : i \in LookupIndexes}

\* The paths get_documentation is called with
LookupPaths ==
    { SwiftUI, <<"/">> \o SwiftUI, ViewPath, <<"/">> \o ViewPath, TextPath,
      <<"N","o","p","e">>,
      <<"f","o","u","n","d","a","t","i","o","n","m","o","d","e","l","s">>,
      <<"F","O","U","N","D","A","T","I","O","N"," ","M","O","D","E","L","S">>,
      Documentation \o <<"/">> \o UIKit,
      <<"/">> \o Documentation \o <<"/">> \o UIKit \o <<"/">> \o View,
      Documentation \o <<"/","s","w","i","f","t","u","i","/","N","o","p","e">>,
      <<"u","i","k","i","t","/">> \o View }

InitLookup ==
    /\ now = 0
    /\ cache = EmptyMap
    /\ upstream \in LookupWorlds
    /\ pc = "idle"
    /\ args = NoArgs
    /\ req = NoReq
    /\ loc = NoLocals
    /\ result = NoResult
    /\ trace = <<>>
    /\ stored = EmptyMap
    /\ ncalls = 0
    /\ fnIn = NoFn
    /\ fnOut = NoFn
    /\ calls = NoCalls

CallLookupOnce == ncalls = 0 /\ \E path \in LookupPaths : GetDocumentation(path)

NextLookup ==
    \/ CallLookupOnce
    \/ GetDocumentation_AfterSymbol
    \/ GetDocumentation_AfterIndex
    \/ GetDocumentation_AfterFramework

SpecLookup == InitLookup /\ [][NextLookup]_vars

-----------------------------------------------------------------------------

-----------------------------------------------------------------------------
(* Properties                                                              *)

\* A tool call of the given tool has ended
Ended(tool) == pc = "idle" /\ result # NoResult /\ args.tool = tool

\* C1: a makeRequest call made less than cacheTimeout after the last
\* successful network fetch of its url goes to the cache and issues no
\* network call (so the two fetches take one network call together); a call
\* made once cacheTimeout has elapsed, or for a url never fetched, issues a
\* network call.
C1_OneFetchPerWindow ==
    \A i \in 1..Len(trace) :
        LET e == trace[i]
            inWindow == e.lastStored >= 0 /\ e.at - e.lastStored < cacheTimeout
        IN e.net <=> ~ inWindow

\* C1 witness: the second tool call asks for a url fetched less than
\* cacheTimeout before, at a later time, and is served without the network.
C1_Witness ==
    /\ ncalls = 2
    /\ \E i \in 1..Len(trace) :
         /\ trace[i].lastStored >= 0
         /\ trace[i].at > trace[i].lastStored
         /\ ~ trace[i].net
         /\ trace[i].state = "ok"

\* The symbol fetch of the ended get_documentation call failed and
\* checkIfTechnology returned null
SymbolFailedUndetected ==
    /\ Ended("get_documentation")
    /\ trace[1].state = "failed"
    /\ loc.detected = "no"

NoFrameworkFetch ==
    \A i \in 1..Len(trace) :
        i > 1 => trace[i].url = TechnologiesUrl

FallbackFetched ==
    /\ Ended("get_documentation")
    /\ trace[1].state = "failed"
    /\ loc.detected = "yes"
    /\ Len(trace) = 3

\* C3: when the symbol fetch fails, a technology is detected and the fetch
\* of its framework document succeeds, get_documentation returns the
\* "framework detected" guidance payload.
C3_FrameworkDetected ==
    FallbackFetched /\ trace[3].state = "ok" =>
        result = Returned(FrameworkDetectedPayload(loc.frameworks[1], args.path))

\* C3 for the documents that have topicSections: the payload is returned.
C3_FrameworkDetectedWithTopics ==
    /\ FallbackFetched
    /\ trace[3].state = "ok"
    /\ FallbackRenders(UpstreamData(trace[3].url))
    => result = Returned(FrameworkDetectedPayload(loc.frameworks[1], args.path))

\* C4: when a technology is detected and the fetch of its framework
\* document fails, get_documentation returns the "not found" guidance
\* payload as a normal result; the error of that fetch is not thrown.
C4_FallbackFailureNotFound ==
    FallbackFetched /\ trace[3].state = "failed" =>
        result = Returned(NotFoundPayload(args.path))

\* C4 witness: the framework fetch of an ended call failed
C4_Witness ==
    FallbackFetched /\ trace[3].state = "failed" /\ trace[3].net

\* A search_symbols call without framework (searchGlobal) has ended
GlobalSearchEnded == Ended("search_symbols") /\ args.framework = <<>>

\* A search_symbols call with a framework (searchFramework) has ended
FrameworkSearchEnded == Ended("search_symbols") /\ args.framework # <<>>

\* The index the upstream serves yields candidates: getTechnologies and the
\* filter over its values throw nothing
IndexYieldsCandidates ==
    /\ getTechnologies(upstream.index).ok
    /\ SearchFrameworks(getTechnologies(upstream.index).technologies).ok

\* The options searchGlobal gives searchFramework for one candidate
CandidateOptions ==
    [ToolOptions(args) EXCEPT !.maxResults = SubCap(ToolOptions(args).maxResults)]

\* The matches of candidates k.. of the ended searchGlobal call, in candidate
\* order, after acc: the k-th candidate searched is fetched by trace[k + 1],
\* and gives its (capped, sorted) matches when its search succeeded
RECURSIVE ReachableMatches(_, _)
ReachableMatches(k, acc) ==
    IF k + 1 > Len(trace) THEN acc
    ELSE IF trace[k + 1].state = "ok"
         THEN LET body == SearchFrameworkBody(UpstreamData(trace[k + 1].url),
                                              loc.frameworks[k].title, args.query,
                                              CandidateOptions)
              IN ReachableMatches(k + 1, IF body.ok THEN acc \o body.results ELSE acc)
    ELSE ReachableMatches(k + 1, acc)

\* C5: whichever candidate frameworks fail, a searchGlobal call whose index
\* yielded candidates returns a list and no error; the list is the matches of
\* the candidates whose search succeeded, in candidate order, cut to
\* maxResults, and every candidate was searched unless maxResults matches had
\* been gathered before it.
C5_FrameworkFailuresSkipped ==
    GlobalSearchEnded /\ trace[1].state = "ok" /\ IndexYieldsCandidates =>
        LET maxResults == ToolOptions(args).maxResults
            matches == ReachableMatches(1, <<>>)
        IN /\ result = Returned(SearchPayload(Take(matches, maxResults)))
           /\ Len(result.payload.results) <= maxResults
           /\ Len(trace) - 1 = Len(loc.frameworks) \/ Len(matches) >= maxResults

\* C5 witness: a candidate's fetch failed, a later candidate's succeeded, and
\* the call returned matches
C5_Witness ==
    /\ GlobalSearchEnded
    /\ result.tag = "ok"
    /\ result.payload.results # <<>>
    /\ \E j, k \in 2..Len(trace) :
         j < k /\ trace[j].state = "failed" /\ trace[k].state = "ok"

\* C6: whenever the fetch of the technology index succeeds, searchGlobal
\* returns a result list and does not fail, whatever the index holds.
C6_FailsOnlyOnIndexFetch ==
    GlobalSearchEnded /\ trace[1].state = "ok" => result.tag = "ok"

\* C6 for the indexes that yield candidates: the call does not fail.
C6_FailsOnlyOnIndexFetchWellFormed ==
    GlobalSearchEnded /\ trace[1].state = "ok" /\ IndexYieldsCandidates =>
        result.tag = "ok"

\* The entry of the searched framework document a result was made from
RefOf(r) ==
    LET refs == UpstreamData(trace[1].url).refs
    IN refs[CHOOSE i \in 1..Len(refs) : refs[i].tag # "null" /\ refs[i].url = r.path]

\* What C7 says of the list a searchFramework call returned; the platform
\* filter is read with entries that list no platforms rejected (strict) or
\* as matchesSearch tests it
SearchFrameworkResultOk(strict) ==
    LET results == result.payload.results
        options == ToolOptions(args)
    IN /\ Len(results) <= options.maxResults
       /\ \A i \in 1..Len(results) :
            /\ RegexTest(createSearchPattern(args.query), results[i].title)
            /\ options.symbolType # "" => results[i].symbolKind = options.symbolType
            /\ IF strict THEN ~ PlatformMismatchStrict(RefOf(results[i]), options)
               ELSE ~ PlatformMismatch(RefOf(results[i]), options)
       /\ \A i, j \in 1..Len(results) :
            i < j => scoreMatch(results[i].title, args.query)
                       <= scoreMatch(results[j].title, args.query)

\* C7: a searchFramework call returns at most maxResults results, each with
\* a title the compiled pattern accepts and passing the symbolType and
\* platform filters (a platform filter rejects an entry that lists no
\* platforms), ordered by score ascending.
C7_CappedFilteredSorted ==
    FrameworkSearchEnded /\ result.tag = "ok" => SearchFrameworkResultOk(TRUE)

\* C7 with the platform filter as matchesSearch applies it (an entry that
\* lists no platforms passes): cap, pattern, symbolType and order hold.
C7_CappedFilteredSortedLenient ==
    FrameworkSearchEnded /\ result.tag = "ok" => SearchFrameworkResultOk(FALSE)

\* C8: when the fetch of the framework document fails, the searchFramework
\* call ends with an error that carries the framework name and the error of
\* the fetch; no result list is returned.
C8_FetchFailurePropagates ==
    FrameworkSearchEnded /\ trace[1].state = "failed" =>
        /\ result.tag = "error"
        /\ result.message.cause.name = args.framework
        /\ result.message.cause.cause = trace[1].err

\* C8 witness: a framework search ended after its fetch went to the network
\* and failed
C8_Witness ==
    FrameworkSearchEnded /\ trace[1].state = "failed" /\ trace[1].net

\* createSearchPattern has been applied to fnIn
PatternApplied == fnOut # NoFn /\ fnOut.fn = "createSearchPattern"

IsLiteral(query) == \A i \in 1..Len(query) : query[i] \notin {"*", "?"}

\* C9: for a query without * and ?, the pattern accepts a title exactly when
\* the title contains the query, both lower-cased.
C9_LiteralIsSubstring ==
    PatternApplied /\ IsLiteral(fnIn.query) =>
        (fnOut.accepted <=> Includes(ToLowerCase(fnIn.title), ToLowerCase(fnIn.query)))

\* C9 witness: a literal query with a regular-expression special character
\* and a letter is accepted in a title that spells the letter in the other case
C9_Witness ==
    /\ PatternApplied
    /\ IsLiteral(fnIn.query)
    /\ \E i \in 1..Len(fnIn.query) : fnIn.query[i] = "."
    /\ \E i \in 1..Len(fnIn.query) : ToLowerChar(fnIn.query[i]) # ToUpperChar(fnIn.query[i])
    /\ ~ Includes(fnIn.title, fnIn.query)
    /\ fnOut.accepted

\* The query read as a glob matches a prefix of s: * stands for any run of
\* characters, ? for any one character, another character for itself in
\* either case
RECURSIVE GlobMatchesPrefix(_, _)
GlobMatchesPrefix(query, s) ==
    IF query = <<>> THEN TRUE
    ELSE IF Head(query) = "*"
         THEN \E k \in 0..Len(s) : GlobMatchesPrefix(Tail(query), Drop(s, k))
    ELSE /\ s # <<>>
         /\ Head(query) = "?" \/ ToLowerChar(Head(query)) = ToLowerChar(Head(s))
         /\ GlobMatchesPrefix(Tail(query), Tail(s))

\* Some contiguous part of the title matches the glob
GlobAccepts(query, title) ==
    \E k \in 0..Len(title) : GlobMatchesPrefix(query, Drop(title, k))

\* C10: the pattern accepts a title exactly when some contiguous part of the
\* title matches the query read as a glob, * matching zero or more arbitrary
\* characters and ? exactly one arbitrary character.
C10_GlobSemantics ==
    PatternApplied => (fnOut.accepted <=> GlobAccepts(fnIn.query, fnIn.title))

\* C10 for titles without line terminators: the pattern is the glob.
C10_GlobSemanticsOneLine ==
    /\ PatternApplied
    /\ \A i \in 1..Len(fnIn.title) : fnIn.title[i] \notin LineTerminators
    => (fnOut.accepted <=> GlobAccepts(fnIn.query, fnIn.title))

\* scoreMatch has been applied to fnIn
ScoreApplied == fnOut # NoFn /\ fnOut.fn = "scoreMatch"

\* The query without its wildcard characters * and ?
StripWildcards(query) == SelectSeq(query, LAMBDA c : c \notin {"*", "?"})

\* The tiers of the ranker for a title and a stripped query
ScoreTier(title, stripped) ==
    IF ToLowerCase(title) = ToLowerCase(stripped) THEN 0
    ELSE IF StartsWith(ToLowerCase(title), ToLowerCase(stripped)) THEN 1
    ELSE IF Includes(ToLowerCase(title), ToLowerCase(stripped)) THEN 2
    ELSE 3

\* C11: scoreMatch returns 0 when the title equals the query stripped of *
\* and ?, case-insensitively; otherwise 1 when the title starts with the
\* stripped query; otherwise 2 when it contains it; otherwise 3.
C11_ScoreTiers ==
    ScoreApplied => fnOut.score = ScoreTier(fnIn.title, StripWildcards(fnIn.query))

\* C11 for queries without ?: the tiers are as stated.
C11_ScoreTiersWithoutQuestionMark ==
    ScoreApplied /\ (\A i \in 1..Len(fnIn.query) : fnIn.query[i] # "?") =>
        fnOut.score = ScoreTier(fnIn.title, StripWildcards(fnIn.query))

\* The query is not empty and holds nothing but *
OnlyStars(query) == query # <<>> /\ \A i \in 1..Len(query) : query[i] = "*"

\* C12 as stated: for a query made of wildcards only, scoreMatch returns 3
\* for every title that is not empty.
C12_PureWildcardScoresThree ==
    /\ ScoreApplied
    /\ fnIn.query # <<>>
    /\ StripWildcards(fnIn.query) = <<>>
    /\ fnIn.title # <<>>
    => fnOut.score = 3

\* C12 amended: for a query made of * only, scoreMatch returns 1 for every
\* title that is not empty (every title starts with the empty string).
C12_PureStarScoresOne ==
    ScoreApplied /\ OnlyStars(fnIn.query) /\ fnIn.title # <<>> => fnOut.score = 1

\* C12 witness: scoreMatch has scored a title that is not empty for the query *
C12_Witness ==
    ScoreApplied /\ fnIn.query = <<"*">> /\ fnIn.title # <<>> /\ fnOut.score = 1

\* The position in the searched framework's reference map of the entry a
\* result was made from
RefIndexOf(r) ==
    LET refs == UpstreamData(trace[1].url).refs
    IN CHOOSE i \in 1..Len(refs) : refs[i].tag # "null" /\ refs[i].url = r.path

\* C13: in a list searchFramework returns, scores never decrease along the
\* list, and two results of equal score stand in the order of their entries
\* in the reference map.
C13_StableRanking ==
    FrameworkSearchEnded /\ result.tag = "ok" =>
        LET results == result.payload.results
        IN \A i, j \in 1..Len(results) :
             i < j =>
               LET si == scoreMatch(results[i].title, args.query)
                   sj == scoreMatch(results[j].title, args.query)
               IN /\ si <= sj
                  /\ si = sj => RefIndexOf(results[i]) < RefIndexOf(results[j])

\* C13 witness: a returned list holds two results of equal score
C13_Witness ==
    /\ FrameworkSearchEnded
    /\ result.tag = "ok"
    /\ \E i, j \in 1..Len(result.payload.results) :
         /\ i < j
         /\ scoreMatch(result.payload.results[i].title, args.query)
              = scoreMatch(result.payload.results[j].title, args.query)

\* The entry carries a platform record whose name contains the filter value
CarriesPlatform(ref, platform) ==
    /\ ref.hasPlatforms
    /\ \E i \in 1..Len(ref.platforms) :
         Includes(ToLowerCase(ref.platforms[i]), ToLowerCase(platform))

\* C14: with a platform filter set, every entry matchesSearch lets into the
\* results carries a platform record whose name contains the filter value;
\* an entry without platform data is rejected.
C14_PlatformFilterRejects ==
    FrameworkSearchEnded /\ result.tag = "ok" /\ args.platform # <<>> =>
        \A i \in 1..Len(result.payload.results) :
            CarriesPlatform(RefOf(result.payload.results[i]), args.platform)

\* C14 for the entries that carry platform data: those let in carry the
\* platform asked for.
C14_PlatformFilterRejectsListed ==
    FrameworkSearchEnded /\ result.tag = "ok" /\ args.platform # <<>> =>
        \A i \in 1..Len(result.payload.results) :
            RefOf(result.payload.results[i]).hasPlatforms =>
                CarriesPlatform(RefOf(result.payload.results[i]), args.platform)

\* The positions of the entries of the searched document that pass the filter
PassingIndices ==
    LET refs == UpstreamData(trace[1].url).refs
    IN {i \in 1..Len(refs) :
          /\ refs[i].tag # "null"
          /\ matchesSearch(refs[i], createSearchPattern(args.query), ToolOptions(args))}

\* The first maxResults of them in reference-map order
FirstPassingIndices ==
    {i \in PassingIndices :
        Cardinality({j \in PassingIndices : j < i}) < ToolOptions(args).maxResults}

\* C16: the results searchFramework returns are made from exactly the first
\* maxResults entries, in reference-map order, that pass the filter; a
\* passing entry after them is not returned, whatever its score.
C16_CapBeforeRanking ==
    FrameworkSearchEnded /\ result.tag = "ok" =>
        LET results == result.payload.results
        IN /\ {RefIndexOf(results[k]) : k \in 1..Len(results)} = FirstPassingIndices
           /\ Len(results) = Cardinality(FirstPassingIndices)

\* C16 witness: a passing entry beyond the cap that scores better than every
\* returned result was left out
C16_Witness ==
    /\ FrameworkSearchEnded
    /\ result.tag = "ok"
    /\ result.payload.results # <<>>
    /\ \E i \in PassingIndices \ FirstPassingIndices :
         \A k \in 1..Len(result.payload.results) :
            scoreMatch(UpstreamData(trace[1].url).refs[i].title, args.query)
              < scoreMatch(result.payload.results[k].title, args.query)

\* C15: search_symbols called without maxResults returns at most 20
\* results, with a framework given and with none.
C15_DefaultTwenty ==
    Ended("search_symbols") /\ ~ args.hasMaxResults /\ result.tag = "ok" =>
        Len(result.payload.results) <= 20

\* C15 witness: a global search without maxResults returned 20 results and
\* left candidates unsearched
C15_Witness ==
    /\ GlobalSearchEnded
    /\ ~ args.hasMaxResults
    /\ result.tag = "ok"
    /\ Len(result.payload.results) = 20
    /\ Len(trace) - 1 < Len(loc.frameworks)

\* The technologies of the upstream index
IndexTechnologies ==
    IF upstream.index.tag = "null" \/ ~ upstream.index.hasRefs THEN <<>>
    ELSE upstream.index.refs

\* Those with kind "symbol" and role "collection", in index order
IndexFrameworks ==
    SelectSeq(IndexTechnologies,
              LAMBDA t : t.tag # "null" /\ t.kind = "symbol" /\ t.role = "collection")

\* The first 20 of them
IndexCandidates == Take(IndexFrameworks, 20)

\* A search_symbols call without framework is under way or has ended
GlobalSearchCalled == args.tool = "search_symbols" /\ args.framework = <<>>

\* C17: in a searchGlobal call the index is requested once, and framework
\* documents are requested only for technologies with kind "symbol" and
\* role "collection" among the first 20 such of the index: at most one
\* index fetch and 20 framework fetches.
C17_OnlyFirstTwentyFrameworks ==
    GlobalSearchCalled =>
        /\ \A k \in 1..Len(trace) :
             IF k = 1 THEN trace[k].url = TechnologiesUrl
             ELSE \E c \in 1..Len(IndexCandidates) :
                     trace[k].url = FrameworkUrl(IndexCandidates[c].title)
        /\ Len(trace) <= 1 + 20

\* C17 witness: a call over an index of more than 20 frameworks, with
\* technologies that are no frameworks among them, ended after the index
\* fetch and 20 framework fetches
C17_Witness ==
    /\ GlobalSearchEnded
    /\ Len(IndexFrameworks) > 20
    /\ Len(IndexTechnologies) > Len(IndexFrameworks)
    /\ Len(trace) = 1 + 20

\* The results of the ended call that came from the framework of that title
ResultsFrom(title) ==
    SelectSeq(result.payload.results, LAMBDA r : r.framework = title)

\* C18: searchGlobal visits the candidates in index order, starts a
\* framework search only while fewer than maxResults results are gathered,
\* and no framework contributes more than ceil(maxResults / 4) results.
C18_OrderedSubCappedVisits ==
    GlobalSearchCalled =>
        /\ \A k \in 2..Len(trace) :
             /\ k - 1 <= Len(IndexCandidates)
             /\ trace[k].url = FrameworkUrl(IndexCandidates[k - 1].title)
        /\ pc = "sg_framework" => Len(loc.results) < ToolOptions(args).maxResults
        /\ GlobalSearchEnded /\ result.tag = "ok" =>
             \A c \in 1..Len(IndexCandidates) :
                4 * Len(ResultsFrom(IndexCandidates[c].title))
                   < ToolOptions(args).maxResults + 4

\* C18 witness: a framework whose document holds more matches contributed
\* exactly ceil(maxResults / 4) results, and the call stopped before the
\* last candidate because maxResults results were gathered
C18_Witness ==
    /\ GlobalSearchEnded
    /\ result.tag = "ok"
    /\ Len(trace) - 1 < Len(IndexCandidates)
    /\ Len(result.payload.results) = ToolOptions(args).maxResults
    /\ \E c \in 1..Len(IndexCandidates) :
         LET n == Len(ResultsFrom(IndexCandidates[c].title))
         IN /\ 4 * n >= ToolOptions(args).maxResults
            /\ n < Len(UpstreamData(FrameworkUrl(IndexCandidates[c].title)).refs)
            /\ n > 1

\* The place of a framework among the candidates
CandidateIndex(title) ==
    CHOOSE c \in 1..Len(IndexCandidates) : IndexCandidates[c].title = title

\* C19: the list searchGlobal returns is the first maxResults elements of
\* the per-framework lists put one after the other in index order: results
\* of an earlier framework come before those of a later one, whatever the
\* scores.
C19_ConcatenationInIndexOrder ==
    GlobalSearchEnded /\ result.tag = "ok" =>
        LET results == result.payload.results
        IN /\ results = SubSeq(ReachableMatches(1, <<>>), 1, Len(results))
           /\ \/ Len(results) = ToolOptions(args).maxResults
              \/ Len(results) = Len(ReachableMatches(1, <<>>))
           /\ \A i, j \in 1..Len(results) :
                i < j => CandidateIndex(results[i].framework)
                           <= CandidateIndex(results[j].framework)

\* C19 witness: a result of a later framework scores better than a result
\* of an earlier framework that precedes it
C19_Witness ==
    /\ GlobalSearchEnded
    /\ result.tag = "ok"
    /\ \E i, j \in 1..Len(result.payload.results) :
         /\ i < j
         /\ result.payload.results[i].framework # result.payload.results[j].framework
         /\ scoreMatch(result.payload.results[j].title, args.query)
              < scoreMatch(result.payload.results[i].title, args.query)

\* C20: when an invocation requests a url while another invocation awaits
\* the network fetch of the same url, no second network call is issued for
\* it, and once both have returned they hold the same document.
C20_AtomicGetOrInsert ==
    \A p, q \in Invocations :
        /\ p # q
        /\ calls[q].overlapped
        /\ calls[p].state # "idle"
        /\ calls[p].req.url = calls[q].req.url
        /\ calls[p].req.tag = "net"
        => /\ calls[q].req.tag # "net"
           /\ calls[p].state = "done" /\ calls[q].state = "done" /\ calls[p].ok
                => calls[q].ok /\ calls[q].data = calls[p].data

\* C21 as stated: an entry whose age is at most cacheTimeout, exactly
\* cacheTimeout included, is served from the cache; an older one is fetched
\* again.
C21_ServedUpToTtl ==
    \A i \in 1..Len(trace) :
        trace[i].lastStored >= 0 =>
            (trace[i].at - trace[i].lastStored <= cacheTimeout <=> ~ trace[i].net)

\* C21 amended: an entry is served from the cache only while its age is
\* less than cacheTimeout; at an age of exactly cacheTimeout or more the
\* url is fetched again, and the document fetched is stored under the same
\* url with the time of its arrival.
C21_ServedBelowTtl ==
    \A i \in 1..Len(trace) :
        LET e == trace[i]
        IN e.lastStored >= 0 =>
             /\ e.at - e.lastStored <= cacheTimeout - 1 => ~ e.net
             /\ e.at - e.lastStored >= cacheTimeout =>
                  /\ e.net
                  /\ e.state = "ok" =>
                       /\ e.url \in DOMAIN cache
                       /\ cache[e.url].timestamp >= e.at
                       /\ cache[e.url].timestamp > e.lastStored
                       /\ cache[e.url].data = UpstreamData(e.url)

\* C21 witness: a url stored exactly cacheTimeout before was requested,
\* fetched from the network and stored again
C21_Witness ==
    \E i \in 1..Len(trace) :
        /\ trace[i].lastStored >= 0
        /\ trace[i].at - trace[i].lastStored = cacheTimeout
        /\ trace[i].net
        /\ trace[i].state = "ok"
        /\ cache[trace[i].url].timestamp = trace[i].at

\* The awaited makeRequest call ends in this step
RequestEnds ==
    /\ trace # <<>>
    /\ trace[Len(trace)].state = "pending"
    /\ Len(trace') >= Len(trace)
    /\ trace'[Len(trace)].state # "pending"

\* C26: a makeRequest call served from the cache makes no network call and
\* leaves the cache as it was, the timestamp of the entry included, so the
\* entry expires cacheTimeout after it was stored however often it is read.
C26_HitLeavesCache ==
    [][RequestEnds /\ req.tag = "hit" =>
          /\ cache' = cache
          /\ stored' = stored
          /\ ~ trace'[Len(trace)].net
          /\ cache[req.url].timestamp = trace[Len(trace)].lastStored]_vars

\* C26 witness: an entry was served some time after it was stored and still
\* carries the time it was stored at
C26_Witness ==
    \E i \in 1..Len(trace) :
        /\ ~ trace[i].net
        /\ trace[i].state = "ok"
        /\ trace[i].at > trace[i].lastStored
        /\ cache[trace[i].url].timestamp = trace[i].lastStored

\* C27: a makeRequest call that fails leaves the cache as it was: no entry
\* is added, changed or removed; and a later call for the same url in the
\* same tool call goes to the network again.
C27_FailureLeavesCache ==
    /\ [][RequestEnds /\ trace'[Len(trace)].state = "failed" => cache' = cache]_vars
    /\ [](\A i, j \in 1..Len(trace) :
            i < j /\ trace[i].url = trace[j].url /\ trace[i].state = "failed"
               => trace[j].net)

\* C27 witness: a fetch failed for a url that has a stale entry, and the
\* entry is still there with its old timestamp
C27_Witness ==
    \E i \in 1..Len(trace) :
        /\ trace[i].state = "failed"
        /\ trace[i].lastStored >= 0
        /\ trace[i].url \in DOMAIN cache
        /\ cache[trace[i].url].timestamp = trace[i].lastStored

\* An error carries the url it came from
CarriesUrl(err, url) ==
    \/ "url" \in DOMAIN err.message /\ err.message.url = url
    \/ /\ "cause" \in DOMAIN err.message
       /\ "url" \in DOMAIN err.message.cause.message
       /\ err.message.cause.message.url = url

\* C25: every failure makeRequest raises, for the index, a framework or a
\* symbol, is an error that carries the url that was requested.
C25_FetchErrorCarriesUrl ==
    \A i \in 1..Len(trace) :
        trace[i].state = "failed" => CarriesUrl(trace[i].err, trace[i].url)

\* C25, what the error does carry: the fixed text and the error of axios.
C25_FetchErrorCarriesCause ==
    \A i \in 1..Len(trace) :
        trace[i].state = "failed" =>
            /\ trace[i].err.message.text = "Failed to fetch documentation"
            /\ \E f \in NetFailures : trace[i].err = FetchError(f)

\* C30: a call of an unknown tool is answered with the error code
\* MethodNotFound, not with the InternalError of a failing handler.
C30_UnknownToolMethodNotFound ==
    pc = "idle" /\ result # NoResult /\ args.tool \in UnknownTools =>
        result.tag = "error" /\ result.code = "MethodNotFound"

\* C30, what the caller is given: InternalError, with the message of the
\* MethodNotFound error as the cause.
C30_UnknownToolInternalError ==
    pc = "idle" /\ result # NoResult /\ args.tool \in UnknownTools =>
        /\ result.tag = "error"
        /\ result.code = "InternalError"
        /\ result.message.cause.code = "MethodNotFound"
        /\ result.message.cause.name = args.tool

\* C22: when the symbol fetch of a get_documentation call returns a
\* document, the call makes no other fetch (no detection, no framework fetch)
\* and its result is the symbol document.
C22_SymbolDocumentEndsLookup ==
    Ended("get_documentation") /\ trace[1].state = "ok" =>
        Len(trace) = 1 /\ result = Returned(SymbolPayload(args.path))

\* C22, for the documents the handler renders without an exception.
C22_RenderedDocumentEndsLookup ==
    Ended("get_documentation") /\ trace[1].state = "ok"
        /\ SymbolRenders(UpstreamData(trace[1].url)) =>
        Len(trace) = 1 /\ result = Returned(SymbolPayload(args.path))

\* C22: the fallback resolver runs only after the first step of the call
\* did not end with a rendered symbol document.
C22_FallbackAfterFailure ==
    Ended("get_documentation") /\ Len(trace) > 1 =>
        trace[1].state = "failed" \/ ~ SymbolRenders(UpstreamData(trace[1].url))

\* The three results the claim names for a get_documentation call
LookupPayloads ==
    {Returned(SymbolPayload(args.path)), Returned(NotFoundPayload(args.path))}
    \cup {Returned(FrameworkDetectedPayload(t, args.path)) :
            t \in {loc.frameworks[i] : i \in 1..Len(loc.frameworks)}}

\* The fetches of one get_documentation call: the symbol first, then the
\* index, then one framework, each at most once
LookupFetches ==
    /\ Len(trace) \in 1..3
    /\ trace[1].url = SymbolUrl(args.path)
    /\ Len(trace) >= 2 => trace[2].url = TechnologiesUrl
    /\ Len(trace) = 3 => trace[3].url = FrameworkUrl(loc.frameworks[1])

CleanedPath(path) ==
    LET prefix == Documentation \o <<"/">>
    IN IF Len(path) >= Len(prefix) /\ \A i \in 1..Len(prefix) : path[i] = prefix[i]
       THEN [i \in 1..(Len(path) - Len(prefix)) |-> path[i + Len(prefix)]]
       ELSE path

Candidate(path) ==
    LET clean == CleanedPath(path)
        slashes == {i \in 1..Len(clean) : clean[i] = "/"}
        n == IF slashes = {} THEN Len(clean)
             ELSE (CHOOSE i \in slashes : \A j \in slashes : i <= j) - 1
    IN [i \in 1..n |-> clean[i]]

\* The title equals the text without regard to case, as it is or with the
\* whitespace of both removed
TitleEquals(title, text) ==
    \/ ToLowerCase(title) = ToLowerCase(text)
    \/ RemoveWhitespace(ToLowerCase(title)) = RemoveWhitespace(ToLowerCase(text))

\* The technologies of the index, in index order, that have a title which
\* equals the candidate or the whole cleaned path
DetectedIndices(technologies, path) ==
    {i \in 1..Len(technologies) :
        /\ technologies[i].tag = "tech"
        /\ technologies[i].title # <<>>
        /\ \/ TitleEquals(technologies[i].title, Candidate(path))
           \/ TitleEquals(technologies[i].title, CleanedPath(path))}

\* A get_documentation call whose detection got the index
DetectionRan ==
    /\ Ended("get_documentation")
    /\ Len(trace) >= 2
    /\ trace[2].state = "ok"
    /\ upstream.index.tag = "object"

\* C24: detection compares the first segment of the path (a leading
\* "documentation/" removed) and the whole cleaned path with every title,
\* without regard to case, as they are and with whitespace removed; it gives
\* the title of the first technology in index order for which one of the
\* comparisons holds, and fails exactly when there is none.
C24_FirstMatchInIndexOrder ==
    DetectionRan =>
        LET technologies == IF upstream.index.hasRefs THEN upstream.index.refs ELSE <<>>
            hits == DetectedIndices(technologies, args.path)
        IN IF hits = {}
           THEN loc.detected = "no"
           ELSE /\ loc.detected = "yes"
                /\ loc.frameworks[1] =
                     technologies[CHOOSE i \in hits : \A j \in hits : i <= j].title

\* Two technologies of the index match the path by the whitespace-removed
\* comparison only and by the plain one; the first of them is detected
C24_Witness ==
    /\ DetectionRan
    /\ upstream.index.hasRefs
    /\ Cardinality(DetectedIndices(upstream.index.refs, args.path)) = 2
    /\ loc.detected = "yes"
    /\ loc.frameworks[1] = FoundationModels
    /\ ToLowerCase(FoundationModels) # ToLowerCase(args.path)

\* Detection by the candidate of a path with a "documentation/" prefix and
\* more than one segment, in another case than the title
C24_WitnessCandidate ==
    /\ DetectionRan
    /\ loc.detected = "yes"
    /\ Candidate(args.path) # args.path
    /\ Candidate(args.path) # CleanedPath(args.path)
    /\ CleanedPath(args.path) # args.path
    /\ loc.frameworks[1] # Candidate(args.path)

\* A get_documentation call whose index fetch failed during detection
IndexFetchFailed ==
    /\ Ended("get_documentation")
    /\ Len(trace) >= 2
    /\ trace[2].state = "failed"

\* What a call gives when its path matches no technology: the error of its
\* first step thrown again
UndetectedOutcome == Thrown(loc.err)

\* C28: when the index fetch fails during detection, the failure is
\* swallowed: no framework is fetched, the error of the index fetch is not
\* what the caller gets, and the call ends as it does when the path matches
\* no technology.
C28_IndexFailureSwallowed ==
    IndexFetchFailed =>
        /\ Len(trace) = 2
        /\ loc.detected = "no"
        /\ result = UndetectedOutcome
        /\ trace[1].state = "failed" => loc.err = trace[1].err
        /\ trace[1].err # trace[2].err => result # Thrown(trace[2].err)

\* The symbol fetch and the index fetch failed in two different ways, and the
\* path names a technology of the index
C28_Witness ==
    /\ IndexFetchFailed
    /\ trace[1].state = "failed"
    /\ trace[1].err # trace[2].err
    /\ result = Thrown(trace[1].err)
    /\ upstream.index.tag = "object"
    /\ DetectedIndices(upstream.index.refs, args.path) # {}

\* A get_documentation call with the path "/" + P
LeadingSlashCall ==
    /\ Ended("get_documentation")
    /\ Len(args.path) > 1
    /\ args.path[1] = "/"

\* What detection gives for the path over the index the upstream serves
DetectionFor(path) ==
    LET techs == getTechnologies(upstream.index)
    IN IF techs.ok THEN checkIfTechnology(techs.technologies, path)
       ELSE [found |-> FALSE, title |-> <<>>]

\* C29: get_documentation("/" + P) requests the symbol url of P and, when
\* that fetch fails, detects the framework that is detected for P and ends
\* with the same kind of outcome (guidance when one is detected).
C29_LeadingSlashIgnored ==
    LeadingSlashCall =>
        LET P == Drop(args.path, 1)
        IN /\ trace[1].url = SymbolUrl(P)
           /\ trace[1].state = "failed" /\ Len(trace) >= 2 /\ trace[2].state = "ok" =>
                /\ (loc.detected = "yes") = DetectionFor(P).found
                /\ DetectionFor(P).found =>
                     /\ loc.frameworks = <<DetectionFor(P).title>>
                     /\ result.tag = "ok"

\* C29, the part about the symbol url
C29_SameSymbolUrl ==
    LeadingSlashCall => trace[1].url = SymbolUrl(Drop(args.path, 1))

\* C29, what detection does with "/" + P: the candidate is the empty text
\* before the slash, and the whole path keeps the slash
C29_SlashKeptInDetection ==
    LeadingSlashCall /\ Len(trace) >= 2 /\ trace[2].state = "ok" =>
        (loc.detected = "yes") = DetectionFor(args.path).found

====
